---- MODULE Spec2Model ----
(***************************************************************************)
(* Model of Extraction-Code.py: the Lambda handler that fetches the track  *)
(* list of one playlist from the Spotify API and stores the raw JSON in S3 *)
(* under a key derived from the wall clock.                                *)
(*                                                                         *)
(* Several invocations of lambda_handler may be in flight at once (each in *)
(* its own execution environment).  They share the wall clock and the S3   *)
(* bucket and nothing else.  Every blocking outbound call is one step of   *)
(* the invocation that makes it; the wall clock (microseconds) never runs  *)
(* backwards and a blocking network round trip takes at least one          *)
(* microsecond.  The clock matters only where it is read, so the model     *)
(* keeps its last reading and whether time is known to have passed since.  *)
(***************************************************************************)
EXTENDS Integers, Sequences, FiniteSets, TLC

VARIABLES
    environ,        \* os.environ: client_id / client_secret
    omit_list,      \* omit_list[i]: invocation i runs the variant without line 17
    clock,          \* wall clock (microseconds since midnight) when last read
    passed,         \* the wall clock is known to have moved on since that reading
    stale,          \* invocations whose pending call was issued before that reading
    pc,             \* position of each invocation
    playlists,      \* local `playlists` (line 17)
    spotify_data,   \* local `spotify_data` (line 22)
    now,            \* value datetime.now() returned at line 26
    calls,          \* outbound calls made by each invocation, in order
    error,          \* exception that left lambda_handler, "" when none
    pred,           \* invocations that had already ended when this one began
    s3              \* objects held by the object store

vars == <<environ, omit_list, clock, passed, stale, pc, playlists, spotify_data,
          now, calls, error, pred, s3>>

----------------------------------------------------------------------------
(* Bounds *)

NumInvocations == 2
MaxDelay == 1

Invocations == 1 .. NumInvocations

----------------------------------------------------------------------------
(* Strings as the code manipulates them *)

RECURSIVE Join(_)
Join(chars) == IF chars = <<>> THEN "" ELSE Head(chars) \o Join(Tail(chars))

RECURSIVE SplitFrom(_, _, _, _)
SplitFrom(chars, sep, cur, acc) ==
    IF chars = <<>> THEN Append(acc, cur)
    ELSE IF Head(chars) = sep
         THEN SplitFrom(Tail(chars), sep, <<>>, Append(acc, cur))
         ELSE SplitFrom(Tail(chars), sep, Append(cur, Head(chars)), acc)

\* str.split(sep) for a one-character separator
split(chars, sep) == SplitFrom(chars, sep, <<>>, <<>>)

playlist_link ==
    <<"h","t","t","p","s",":","/","/",
      "o","p","e","n",".","s","p","o","t","i","f","y",".","c","o","m","/",
      "p","l","a","y","l","i","s","t","/",
      "3","O","K","8","U","d","R","o","B","6","I","f","D","E","a","1","p","N","J","T","Q","E">>

playlist_url_first == Join(split(playlist_link, "/")[1])

\* playlist_link.split('/')[-1]
playlist_url ==
    LET parts == split(playlist_link, "/") IN Join(parts[Len(parts)])

----------------------------------------------------------------------------
(* datetime.now() and str(datetime) *)

BootTime == 59999997

Pad2(n) == IF n < 10 THEN "0" \o ToString(n) ELSE ToString(n)

RECURSIVE PadTo(_, _)
PadTo(s, width) == IF Len(s) >= width THEN s ELSE PadTo("0" \o s, width)

Today == "2024-01-01"

str_seconds(t) ==
    LET secs == t \div 1000000
    IN  Today \o " " \o Pad2(secs \div 3600) \o ":" \o Pad2((secs \div 60) % 60)
              \o ":" \o Pad2(secs % 60)

\* datetime.__str__ is isoformat(sep=' '): the fraction is printed only when
\* the microsecond field is not zero.
str_datetime(t) ==
    LET us == t % 1000000
    IN  IF us = 0 THEN str_seconds(t)
        ELSE str_seconds(t) \o "." \o PadTo(ToString(us), 6)

filename_seconds(t) == "spotify_raw_" \o str_seconds(t) \o ".json"

\* "spotify_raw_"+str(datetime.now())+".json"
filename(t) == "spotify_raw_" \o str_datetime(t) \o ".json"

----------------------------------------------------------------------------
(* JSON values and json.dumps *)

Null == [t |-> "null"]
Num(n) == [t |-> "num", v |-> n]
Str(s) == [t |-> "str", v |-> s]
List(items) == [t |-> "list", v |-> items]
Dict(pairs) == [t |-> "dict", v |-> pairs]
\* a value json.dumps has no encoder for
Opaque == [t |-> "object"]
\* a local that has not been assigned
Unbound == [t |-> "unbound"]

Strings == {"items", "track", "name", "Song A", "next", "total", "href", "u"}
Numbers == 0 .. 2

Quote(s) == "\"" \o s \o "\""

RECURSIVE Serializable(_)
Serializable(v) ==
    CASE v.t \in {"null", "num", "str"} -> TRUE
      [] v.t = "list" -> \A k \in 1 .. Len(v.v) : Serializable(v.v[k])
      [] v.t = "dict" -> \A k \in 1 .. Len(v.v) : Serializable(v.v[k][2])
      [] OTHER -> FALSE

RECURSIVE Encode(_)
RECURSIVE EncodeItems(_)
RECURSIVE EncodeMembers(_)
EncodeItems(items) ==
    IF items = <<>> THEN <<>>
    ELSE IF Len(items) = 1 THEN Encode(items[1])
    ELSE Encode(items[1]) \o <<", ">> \o EncodeItems(Tail(items))
EncodeMembers(pairs) ==
    IF pairs = <<>> THEN <<>>
    ELSE LET one == <<Quote(pairs[1][1]), ": ">> \o Encode(pairs[1][2])
         IN  IF Len(pairs) = 1 THEN one
             ELSE one \o <<", ">> \o EncodeMembers(Tail(pairs))
Encode(v) ==
    CASE v.t = "null" -> <<"null">>
      [] v.t = "num"  -> <<ToString(v.v)>>
      [] v.t = "str"  -> <<Quote(v.v)>>
      [] v.t = "list" -> <<"[">> \o EncodeItems(v.v) \o <<"]">>
      [] v.t = "dict" -> <<"{">> \o EncodeMembers(v.v) \o <<"}">>

RECURSIVE Repr(_)
RECURSIVE ReprItems(_)
RECURSIVE ReprMembers(_)
ReprItems(items) ==
    IF items = <<>> THEN <<>>
    ELSE IF Len(items) = 1 THEN Repr(items[1])
    ELSE Repr(items[1]) \o <<", ">> \o ReprItems(Tail(items))
ReprMembers(pairs) ==
    IF pairs = <<>> THEN <<>>
    ELSE LET one == <<"'" \o pairs[1][1] \o "'", ": ">> \o Repr(pairs[1][2])
         IN  IF Len(pairs) = 1 THEN one
             ELSE one \o <<", ">> \o ReprMembers(Tail(pairs))
Repr(v) ==
    CASE v.t = "null" -> <<"None">>
      [] v.t = "num"  -> <<ToString(v.v)>>
      [] v.t = "str"  -> <<"'" \o v.v \o "'">>
      [] v.t = "list" -> <<"[">> \o ReprItems(v.v) \o <<"]">>
      [] v.t = "dict" -> <<"{">> \o ReprMembers(v.v) \o <<"}">>

\* the text str(value) would give
json_dumps_repr(v) == Repr(v)

\* json.dumps(value) with the default separators, as a sequence of lexemes
json_dumps(v) == Encode(v)

----------------------------------------------------------------------------
(* A JSON parser, to read back what was stored *)

DecodeError == [t |-> "JSONDecodeError"]
NoParse == [ok |-> FALSE, val |-> DecodeError, next |-> 0]
Parsed(v, n) == [ok |-> TRUE, val |-> v, next |-> n]

NumLexemes == {ToString(n) : n \in Numbers}
StrLexemes == {Quote(s) : s \in Strings}
Unquote(lex) == CHOOSE s \in Strings : Quote(s) = lex
NumberOf(lex) == CHOOSE n \in Numbers : ToString(n) = lex

At(toks, k) == IF k \in 1 .. Len(toks) THEN toks[k] ELSE ""

RECURSIVE ParseValue(_, _)
RECURSIVE ParseItems(_, _, _)
RECURSIVE ParseMembers(_, _, _)
ParseItems(toks, k, acc) ==
    LET r == ParseValue(toks, k) IN
    IF ~r.ok THEN NoParse
    ELSE IF At(toks, r.next) = ", "
         THEN ParseItems(toks, r.next + 1, Append(acc, r.val))
    ELSE IF At(toks, r.next) = "]"
         THEN Parsed(List(Append(acc, r.val)), r.next + 1)
    ELSE NoParse
ParseMembers(toks, k, acc) ==
    IF ~(At(toks, k) \in StrLexemes /\ At(toks, k + 1) = ": ") THEN NoParse
    ELSE LET r == ParseValue(toks, k + 2) IN
         IF ~r.ok THEN NoParse
         ELSE LET more == Append(acc, <<Unquote(toks[k]), r.val>>) IN
              IF At(toks, r.next) = ", "
              THEN ParseMembers(toks, r.next + 1, more)
              ELSE IF At(toks, r.next) = "}"
                   THEN Parsed(Dict(more), r.next + 1)
              ELSE NoParse
ParseValue(toks, k) ==
    LET tk == At(toks, k) IN
    CASE tk = "null" -> Parsed(Null, k + 1)
      [] tk \in NumLexemes -> Parsed(Num(NumberOf(tk)), k + 1)
      [] tk \in StrLexemes -> Parsed(Str(Unquote(tk)), k + 1)
      [] tk = "[" -> IF At(toks, k + 1) = "]" THEN Parsed(List(<<>>), k + 2)
                     ELSE ParseItems(toks, k + 1, <<>>)
      [] tk = "{" -> IF At(toks, k + 1) = "}" THEN Parsed(Dict(<<>>), k + 2)
                     ELSE ParseMembers(toks, k + 1, <<>>)
      [] OTHER -> NoParse

json_loads(toks) ==
    LET r == ParseValue(toks, 1) IN
    IF r.ok /\ r.next = Len(toks) + 1 THEN r.val ELSE DecodeError

----------------------------------------------------------------------------
(* What the external services may answer *)

SongA == Dict(<< <<"items", List(<< Dict(<< <<"track",
                     Dict(<< <<"name", Str("Song A")>> >>)>> >>) >>)>> >>)
EmptyPage == Dict(<< <<"items", List(<<>>)>>, <<"next", Null>>,
                     <<"total", Num(0)>> >>)
NotJson == Dict(<< <<"items", Opaque>> >>)
UserPlaylists == Dict(<< <<"href", Str("u")>>, <<"items", List(<<>>)>> >>)

TrackPayloads == {SongA, EmptyPage, NotJson}
PlaylistPayloads == {UserPlaylists}

NoValue == ""
Environments ==
    { [client_id |-> "abc", client_secret |-> "xyz"],
      [client_id |-> "abc", client_secret |-> "bad"],
      [client_id |-> NoValue, client_secret |-> NoValue] }
\* the one pair the token endpoint accepts
Registered == [client_id |-> "abc", client_secret |-> "xyz"]

NoTime == -1

----------------------------------------------------------------------------
(* One invocation of lambda_handler(event, context) *)

Events == {"schedule", "http"}

Finished(i) == pc[i] \in {"done", "failed"}

\* positions at which an invocation is blocked in an outbound call
Blocked == {"auth", "list", "tracks", "put"}

Call(op, args, ok) == [op |-> op, args |-> args, ok |-> ok]

\* an exception leaves lambda_handler: nothing catches it
Raise(i, exc) ==
    /\ pc' = [pc EXCEPT ![i] = "failed"]
    /\ error' = [error EXCEPT ![i] = exc]

\* A blocking call of invocation i returns.  A round trip takes time, so the
\* wall clock has moved on since its last reading unless that reading was
\* taken while the call was already under way.
Returned(i) ==
    /\ passed' = (passed \/ i \notin stale)
    /\ stale' = stale \ {i}

\* Lines 8-15: the platform calls lambda_handler; the two credentials are
\* read and the credentials manager and the API client are built.  The
\* event and the context are not read.
Invoke(i) ==
    /\ pc[i] = "idle"
    /\ \E event \in Events :
         /\ pred' = [pred EXCEPT ![i] = {j \in Invocations : Finished(j)}]
         /\ IF environ.client_id = NoValue \/ environ.client_secret = NoValue
            THEN Raise(i, "SpotifyOauthError")
            ELSE /\ pc' = [pc EXCEPT ![i] = "auth"]
                 /\ UNCHANGED error
    /\ UNCHANGED <<environ, omit_list, clock, passed, stale, playlists,
                   spotify_data, now, calls, s3>>

\* The client-credentials token exchange made by the API client: the first
\* outbound call of the invocation.
Authenticate(i) ==
    /\ pc[i] = "auth"
    /\ \E ok \in (IF environ = Registered THEN BOOLEAN ELSE {FALSE}) :
         /\ calls' = [calls EXCEPT ![i] = Append(@, Call("token", <<>>, ok))]
         /\ IF ok
            THEN /\ pc' = [pc EXCEPT ![i] = IF omit_list[i] THEN "tracks" ELSE "list"]
                 /\ UNCHANGED error
            ELSE Raise(i, "SpotifyOauthError")
    /\ Returned(i)
    /\ UNCHANGED <<environ, omit_list, clock, playlists, spotify_data, now,
                   pred, s3>>

\* a handler that carries on after a failed list call
ListPlaylists_swallow(i) ==
    /\ pc[i] = "list"
    /\ \E ok \in BOOLEAN :
         /\ calls' = [calls EXCEPT ![i] =
                        Append(@, Call("user_playlists", <<"spotify">>, ok))]
         /\ \E p \in PlaylistPayloads :
              playlists' = [playlists EXCEPT ![i] = IF ok THEN p ELSE Null]
    /\ pc' = [pc EXCEPT ![i] = "tracks"]
    /\ Returned(i)
    /\ UNCHANGED <<environ, omit_list, clock, spotify_data, now, error, pred, s3>>

\* Line 17: playlists=sp.user_playlists('spotify')
ListPlaylists(i) ==
    /\ pc[i] = "list"
    /\ \/ \E p \in PlaylistPayloads :
            /\ calls' = [calls EXCEPT ![i] =
                           Append(@, Call("user_playlists", <<"spotify">>, TRUE))]
            /\ playlists' = [playlists EXCEPT ![i] = p]
            /\ pc' = [pc EXCEPT ![i] = "tracks"]
            /\ UNCHANGED error
       \/ /\ calls' = [calls EXCEPT ![i] =
                         Append(@, Call("user_playlists", <<"spotify">>, FALSE))]
          /\ Raise(i, "SpotifyException")
          /\ UNCHANGED playlists
    /\ Returned(i)
    /\ UNCHANGED <<environ, omit_list, clock, spotify_data, now, pred, s3>>

\* a handler that treats a failed tracks call as an empty answer
PlaylistTracks_swallow(i) ==
    /\ pc[i] = "tracks"
    /\ \E ok \in BOOLEAN :
         /\ calls' = [calls EXCEPT ![i] =
                        Append(@, Call("playlist_tracks", <<playlist_url>>, ok))]
         /\ \E p \in TrackPayloads :
              spotify_data' = [spotify_data EXCEPT ![i] = IF ok THEN p ELSE Null]
    /\ pc' = [pc EXCEPT ![i] = "now"]
    /\ Returned(i)
    /\ UNCHANGED <<environ, omit_list, clock, playlists, now, error, pred, s3>>

\* a handler that asks for the next page while the answer names one
PlaylistTracks_paginate(i) ==
    /\ pc[i] = "tracks"
    /\ Len(calls[i]) < 4
    /\ \E p \in TrackPayloads :
         /\ calls' = [calls EXCEPT ![i] =
                        Append(@, Call("playlist_tracks", <<playlist_url>>, TRUE))]
         /\ spotify_data' = [spotify_data EXCEPT ![i] = p]
         /\ pc' = [pc EXCEPT ![i] = IF p = EmptyPage THEN "tracks" ELSE "now"]
    /\ Returned(i)
    /\ UNCHANGED <<environ, omit_list, clock, playlists, now, error, pred, s3>>

\* Lines 19-22: spotify_data=sp.playlist_tracks(playlist_url)
PlaylistTracks(i) ==
    /\ pc[i] = "tracks"
    /\ \/ \E p \in TrackPayloads :
            /\ calls' = [calls EXCEPT ![i] =
                           Append(@, Call("playlist_tracks", <<playlist_url>>, TRUE))]
            /\ spotify_data' = [spotify_data EXCEPT ![i] = p]
            /\ pc' = [pc EXCEPT ![i] = "now"]
            /\ UNCHANGED error
       \/ /\ calls' = [calls EXCEPT ![i] =
                         Append(@, Call("playlist_tracks", <<playlist_url>>, FALSE))]
          /\ Raise(i, "SpotifyException")
          /\ UNCHANGED spotify_data
    /\ Returned(i)
    /\ UNCHANGED <<environ, omit_list, clock, playlists, now, pred, s3>>

\* Lines 24-26: the S3 client is built and datetime.now() is read.  The
\* wall clock does not run backwards.
ReadClock(i) ==
    /\ pc[i] = "now"
    /\ \E delay \in 0 .. MaxDelay :
         LET t == IF passed THEN clock + 1 + delay ELSE clock + delay IN
         /\ clock' = t
         /\ now' = [now EXCEPT ![i] = t]
    /\ passed' = FALSE
    /\ stale' = {j \in Invocations \ {i} : pc[j] \in Blocked}
    /\ pc' = [pc EXCEPT ![i] = "put"]
    /\ UNCHANGED <<environ, omit_list, playlists, spotify_data, calls,
                   error, pred, s3>>

put_bucket == "spotifyv"

\* Key="raw-data/to_processed/"+filename
put_key(i) == "raw-data/to_processed/" \o filename(now[i])

put_body_playlists(i) ==
    json_dumps(IF playlists[i] # Unbound THEN playlists[i] ELSE spotify_data[i])

\* Body=json.dumps(spotify_data)
put_body(i) == json_dumps(spotify_data[i])

\* what S3 holds after a PutObject that it accepted: one object per key
Stored(objects, bucket, key, body) ==
    {o \in objects : ~(o.Bucket = bucket /\ o.Key = key)}
        \cup {[Bucket |-> bucket, Key |-> key, Body |-> body]}

\* a handler that tries the write a second time
PutObject_retry(i) ==
    /\ pc[i] = "put"
    /\ Serializable(spotify_data[i])
    /\ \E ok \in BOOLEAN :
         /\ calls' = [calls EXCEPT ![i] = Append(@,
                        Call("put_object", <<put_bucket, put_key(i), put_body(i)>>, ok))]
         /\ IF ok
            THEN /\ s3' = Stored(s3, put_bucket, put_key(i), put_body(i))
                 /\ pc' = [pc EXCEPT ![i] = "done"]
                 /\ UNCHANGED error
            ELSE /\ IF Len(calls[i]) < 4 THEN UNCHANGED <<pc, error>>
                    ELSE Raise(i, "ClientError")
                 /\ UNCHANGED s3
    /\ Returned(i)
    /\ UNCHANGED <<environ, omit_list, clock, playlists, spotify_data, now, pred>>

\* Lines 28-32: the body is serialized while the arguments are evaluated,
\* then client.put_object(Bucket=..., Key=..., Body=...) is called once.
PutObject(i) ==
    /\ pc[i] = "put"
    /\ IF ~Serializable(spotify_data[i])
       THEN /\ Raise(i, "TypeError")
            /\ UNCHANGED <<calls, s3, passed, stale>>
       ELSE /\ Returned(i)
            /\ \/ /\ calls' = [calls EXCEPT ![i] = Append(@,
                       Call("put_object", <<put_bucket, put_key(i), put_body(i)>>, TRUE))]
                  /\ s3' = Stored(s3, put_bucket, put_key(i), put_body(i))
                  /\ pc' = [pc EXCEPT ![i] = "done"]
                  /\ UNCHANGED error
               \/ /\ calls' = [calls EXCEPT ![i] = Append(@,
                       Call("put_object", <<put_bucket, put_key(i), put_body(i)>>, FALSE))]
                  /\ Raise(i, "ClientError")
                  /\ UNCHANGED s3
    /\ UNCHANGED <<environ, omit_list, clock, playlists, spotify_data, now, pred>>

Idle ==
    /\ clock = BootTime
    /\ passed = FALSE
    /\ stale = {}
    /\ pc = [i \in Invocations |-> "idle"]
    /\ playlists = [i \in Invocations |-> Unbound]
    /\ spotify_data = [i \in Invocations |-> Unbound]
    /\ now = [i \in Invocations |-> NoTime]
    /\ calls = [i \in Invocations |-> <<>>]
    /\ error = [i \in Invocations |-> ""]
    /\ pred = [i \in Invocations |-> {}]
    /\ s3 = {}

Init ==
    /\ environ \in Environments
    /\ omit_list = [i \in Invocations |-> FALSE]
    /\ Idle

Next ==
    \/ \E i \in Invocations : Invoke(i)
    \/ \E i \in Invocations : Authenticate(i)
    \/ \E i \in Invocations : ListPlaylists(i)
    \/ \E i \in Invocations : PlaylistTracks(i)
    \/ \E i \in Invocations : ReadClock(i)
    \/ \E i \in Invocations : PutObject(i)

Spec == Init /\ [][Next]_vars

\* The same system in which every second invocation runs the handler with
\* line 17 removed.
InitVariant ==
    /\ environ \in Environments
    /\ omit_list = [i \in Invocations |-> i % 2 = 0]
    /\ Idle

SpecVariant == InitVariant /\ [][Next]_vars

----------------------------------------------------------------------------
(* Reading the history of an invocation *)

CallsOf(i, op) == SelectSeq(calls[i], LAMBDA c : c.op = op)
Puts(i) == CallsOf(i, "put_object")
FailedCall(i, op) == \E k \in 1 .. Len(calls[i]) : calls[i][k].op = op /\ ~calls[i][k].ok
\* some step of the invocation failed
StepFailed(i) == error[i] # "" \/ \E k \in 1 .. Len(calls[i]) : ~calls[i][k].ok
\* objects the invocation has stored
StoredBy(i) == SelectSeq(Puts(i), LAMBDA c : c.ok)
WrittenKeys(i) ==
                  {StoredBy(i)[k].args[2] : k \in 1 .. Len(StoredBy(i))}
Overlap(i, j) == i # j /\ pc[i] # "idle" /\ pc[j] # "idle"
                 /\ i \notin pred[j] /\ j \notin pred[i]
Ops(i) == [k \in 1 .. Len(calls[i]) |-> calls[i][k].op]
IsPrefix(a, b) == Len(a) <= Len(b) /\ a = SubSeq(b, 1, Len(a))

----------------------------------------------------------------------------
(* Claims *)

\* C1: every invocation stores zero or one object: it calls put_object at
\* most once, a run in which every step succeeded ends with exactly one
\* put_object call and one stored object, and a run in which any step failed
\* has stored nothing.
C1_ZeroOrOneObject ==
    \A i \in Invocations :
        /\ Len(Puts(i)) <= 1
        /\ (pc[i] = "done" /\ ~StepFailed(i)) => Len(Puts(i)) = 1 /\ Len(StoredBy(i)) = 1
        /\ StepFailed(i) => Len(StoredBy(i)) = 0
        /\ pc[i] = "failed" => StepFailed(i)

C1_Witness ==
    \E i, j \in Invocations :
        /\ pc[i] = "done" /\ Len(StoredBy(i)) = 1
        /\ pc[j] = "failed" /\ FailedCall(j, "playlist_tracks") /\ Len(StoredBy(j)) = 0

\* C2: when the token exchange or an API call before the storage write
\* fails, the invocation has ended with that failure propagated, the failed
\* call is the last call it made (nothing is retried) and it never calls
\* put_object.
C2_NoWriteAfterFailure ==
    \A i \in Invocations : \A k \in 1 .. Len(calls[i]) :
        (calls[i][k].op \in {"token", "user_playlists", "playlist_tracks"}
            /\ ~calls[i][k].ok)
        => /\ pc[i] = "failed"
           /\ error[i] \in {"SpotifyOauthError", "SpotifyException"}
           /\ k = Len(calls[i])
           /\ Puts(i) = <<>>

C2_Witness ==
    /\ \E i \in Invocations : FailedCall(i, "token") /\ pc[i] = "failed"
    /\ \E j \in Invocations : FailedCall(j, "user_playlists") /\ pc[j] = "failed"

\* C3: when put_object fails the failure leaves the handler and the write is
\* not attempted again: put_object is called at most once per invocation,
\* and only with the key made from the one clock reading.
C3_NoRetriedWrite ==
    \A i \in Invocations :
        /\ Len(Puts(i)) <= 1
        /\ \A k \in 1 .. Len(Puts(i)) : Puts(i)[k].args[2] = put_key(i)
        /\ FailedCall(i, "put_object") =>
              /\ pc[i] = "failed"
              /\ error[i] = "ClientError"
              /\ Len(StoredBy(i)) = 0

C3_Witness ==
    \E i \in Invocations : FailedCall(i, "put_object") /\ pc[i] = "failed"

\* C4: of two invocations that both succeed, the second begun after the
\* first had ended, the keys written are different.
C4_SequentialKeysDistinct ==
    \A i, j \in Invocations :
        (i \in pred[j] /\ pc[i] = "done" /\ pc[j] = "done")
        => WrittenKeys(i) \cap WrittenKeys(j) = {}

C4_Witness ==
    \E i, j \in Invocations :
        /\ i \in pred[j] /\ pc[i] = "done" /\ pc[j] = "done"
        /\ now[j] = now[i] + 1
        /\ now[j] % 1000000 = 0

\* C5: no two overlapping invocations write to the same storage key.
C5_ConcurrentKeysDistinct ==
    \A i, j \in Invocations :
        Overlap(i, j) => WrittenKeys(i) \cap WrittenKeys(j) = {}

\* C6: the body of a successful write parses, as JSON, to the value the
\* playlist_tracks call of the same invocation returned, and so never to
\* the answer of the user_playlists call.
C6_BodyIsTracksPayload ==
    \A i \in Invocations : \A k \in 1 .. Len(StoredBy(i)) :
        /\ json_loads(StoredBy(i)[k].args[3]) = spotify_data[i]
        /\ json_loads(StoredBy(i)[k].args[3]) # playlists[i]

C6_Witness ==
    \E i \in Invocations :
        /\ pc[i] = "done"
        /\ spotify_data[i] = SongA
        /\ playlists[i] = UserPlaylists
        /\ json_loads(StoredBy(i)[1].args[3]) = SongA

\* C7: every put_object call names bucket spotifyv and the key
\* raw-data/to_processed/spotify_raw_<timestamp of the invocation>.json,
\* every stored object lies in that bucket, and every playlist_tracks call
\* is made with the identifier 3OK8UdRoB6IfDEa1pNJTQE.
C7_FixedTargets ==
    /\ \A i \in Invocations : \A k \in 1 .. Len(calls[i]) :
          /\ calls[i][k].op = "put_object" =>
                /\ calls[i][k].args[1] = "spotifyv"
                /\ calls[i][k].args[2] =
                      "raw-data/to_processed/spotify_raw_"
                          \o str_datetime(now[i]) \o ".json"
          /\ calls[i][k].op = "playlist_tracks" =>
                calls[i][k].args = <<"3OK8UdRoB6IfDEa1pNJTQE">>
    /\ \A o \in s3 : o.Bucket = "spotifyv"

C7_Witness ==
    \E i \in Invocations :
        /\ pc[i] = "done"
        /\ StoredBy(i)[1].args[2] =
              "raw-data/to_processed/spotify_raw_2024-01-01 00:00:59.999999.json"
        /\ CallsOf(i, "playlist_tracks") # <<>>

\* C8: the outbound calls of an invocation are made one after the other,
\* each at most once, in the order token exchange, user_playlists,
\* playlist_tracks, put_object; put_object is called only after
\* playlist_tracks has returned a value.
C8_CallOrder ==
    \A i \in Invocations :
        /\ IsPrefix(Ops(i), <<"token", "user_playlists", "playlist_tracks", "put_object">>)
        /\ Puts(i) # <<>> =>
              /\ ~FailedCall(i, "playlist_tracks")
              /\ spotify_data[i] # Unbound

C8_Witness ==
    \E i \in Invocations :
        Ops(i) = <<"token", "user_playlists", "playlist_tracks", "put_object">>

\* Two invocations met the same outcomes wherever both asked the outside
\* world the same thing.
Consistent(i, j) ==
    /\ \A op \in {"token", "playlist_tracks", "put_object"} :
          (CallsOf(i, op) # <<>> /\ CallsOf(j, op) # <<>>)
          => CallsOf(i, op)[1].ok = CallsOf(j, op)[1].ok
    /\ (spotify_data[i] # Unbound /\ spotify_data[j] # Unbound)
          => spotify_data[i] = spotify_data[j]
    /\ (now[i] # NoTime /\ now[j] # NoTime) => now[i] = now[j]

SameObservable(i, j) == pc[i] = pc[j] /\ Puts(i) = Puts(j)

\* C9 as stated: the handler without the user_playlists call ends the same
\* way and makes the same storage writes as the handler with it, whatever
\* the outcomes of the external calls.
C9_ListCallIsDeadWork ==
    \A i, j \in Invocations :
        (~omit_list[i] /\ omit_list[j] /\ Finished(i) /\ Finished(j)
            /\ Consistent(i, j))
        => SameObservable(i, j)

\* C9 as amended: the same, for the outcomes in which the user_playlists
\* call does not fail.
C9_DeadWorkUnlessListFails ==
    \A i, j \in Invocations :
        (~omit_list[i] /\ omit_list[j] /\ Finished(i) /\ Finished(j)
            /\ Consistent(i, j) /\ ~FailedCall(i, "user_playlists"))
        => SameObservable(i, j)

C9_Witness ==
    \E i, j \in Invocations :
        /\ ~omit_list[i] /\ omit_list[j]
        /\ pc[i] = "done" /\ pc[j] = "done"
        /\ Consistent(i, j)
        /\ CallsOf(i, "user_playlists") # <<>>
        /\ CallsOf(j, "user_playlists") = <<>>
        /\ Puts(i) = Puts(j)

\* C10: an object once stored stays as it is, and each invocation that
\* succeeds adds one object under a new key.
C10_ObjectsNeverChange ==
    [][ /\ \A o \in s3 : o \in s3'
        /\ \A i \in Invocations :
              (pc[i] # "done" /\ pc'[i] = "done")
              => Cardinality(s3') = Cardinality(s3) + 1 ]_vars

====
